---- MODULE Spec2Model ----
(***************************************************************************)
(* Model of perceval/backends/core/rss.py: the RSS backend (class RSS),    *)
(* its HTTP client (class RSSClient) and the cache protocol of the Backend *)
(* base class it drives.                                                   *)
(*                                                                         *)
(* RSS.fetch and RSS.fetch_from_cache are Python generators run by one     *)
(* thread.  Each statement of their bodies is one action, guarded by the   *)
(* position `pc` of the running call; the caller drives the generator      *)
(* (resumes it, or abandons it while it is suspended at a yield).          *)
(* A StopIteration raised inside a generator body is a RuntimeError        *)
(* (PEP 479, Python >= 3.7).                                               *)
(***************************************************************************)
EXTENDS Naturals, Sequences, FiniteSets

\* ------------------------------------------------------------- bounds
\* longest feed document served at the url
MaxLen == 3
\* most records the cache storage holds (no fetch starts beyond that)
MaxRecords == 2

\* ------------------------------------------------------------- data
\* Dates as the feed writes them, and what str_to_datetime(...).timestamp()
\* makes of them (seconds since the epoch, UTC).
Date1 == "Mon, 01 Jan 2024 00:00:00 GMT"
Date2 == "Tue, 02 Jan 2024 00:00:00 GMT"

NoDate == "yesterday"

\* str_to_datetime raises InvalidDateError on a string that is no date.
is_datetime(s) == s \in {Date1, Date2}
str_to_datetime(s) ==
    CASE s = Date1 -> 1704067200
      [] s = Date2 -> 1704153600

\* Entries as feedparser hands them out: mappings from field names to
\* values.  A field the feed does not carry is absent from the mapping.
EntryA == [link |-> "http://x/1", published |-> Date1]
EntryB == [link |-> "http://x/2", published |-> Date2]
EntryNoPublished == [link |-> "http://x/3"]
EntryNoLink == [published |-> Date2]
EntryNoDate == [link |-> "http://x/4", published |-> NoDate]

Entries == {EntryA, EntryB, EntryNoPublished, EntryNoLink, EntryNoDate}

RECURSIVE SeqsUpTo(_, _)
SeqsUpTo(S, n) ==
    IF n = 0 THEN {<<>>}
    ELSE LET shorter == SeqsUpTo(S, n - 1)
         IN  shorter \cup {Append(s, e) : s \in {t \in shorter : Len(t) = n - 1}, e \in S}

\* The feed documents the url may hold.
Feeds == SeqsUpTo(Entries, MaxLen)

\* Raw payloads: the text of a response.  A well-formed body carries the
\* entries of the document it was written from, a malformed one nothing
\* the parser can read.
Body(doc) == [xml |-> "rss", content |-> doc]
Malformed == [xml |-> "garbage", content |-> <<>>]

NoPayload == [xml |-> "none", content |-> <<>>]

\* Responses of the HTTP server to GET url.
Respond(status, text) == [status_code |-> status, text |-> text]

\* ------------------------------------------------------------- state
VARIABLES
    cache,        \* self.cache: was the backend constructed with a cache
    storage,      \* the cache's committed records, in retrieval order
    cache_queue,  \* self._cache_queue: staged, uncommitted records
    feed,         \* the document the url currently holds
    call,         \* the generator most recently created
    pc,           \* the statement it is at
    status_code,  \* the status of the response to this call's GET, 0 before it
    raw_entries,  \* fetch: raw_entries; fetch_from_cache: cache_entries
    entries,      \* the parsed entries
    nentries,     \* entries consumed so far
    items,        \* the items handed to the caller by this call
    result,       \* how the call stands: running, exhausted, or the error
    trace,        \* the effects of this call, in order
    storage0,     \* storage when this call was made
    lastFetch     \* the last fetch() the caller consumed to its end

vars == <<cache, storage, cache_queue, feed, call, pc, status_code, raw_entries,
          entries, nentries, items, result, trace, storage0, lastFetch>>

NoFetch == [made |-> FALSE, raw |-> NoPayload, items |-> <<>>,
            result |-> "none", flushed |-> FALSE, records0 |-> 0]

\* ------------------------------------------------------------- functions
\* RSS.parse_feed: feedparser.parse(raw_entries).  A failure of the parser
\* propagates.
parse_feed(raw) ==
    IF raw.xml = "rss"
    THEN [ok |-> TRUE, entries |-> raw.content]
    ELSE [ok |-> FALSE, entries |-> <<>>]

\* RSS.metadata_id: str(item['link']); links are strings already.
has_link(item) == "link" \in DOMAIN item
metadata_id(item) == item.link

\* RSS.metadata_updated_on: str_to_datetime(item['published']).timestamp()
has_published(item) == "published" \in DOMAIN item
metadata_updated_on(item) == str_to_datetime(item.published)

\* RSS.metadata_category
metadata_category(item) == "entry"

\* The @metadata decorator of the Backend: wraps each entry as the wrapped
\* generator produces it.
metadata_error(item) ==
    CASE ~has_link(item) -> "KeyError"
      [] has_link(item) /\ ~has_published(item) -> "KeyError"
      [] has_link(item) /\ has_published(item) /\ ~is_datetime(item.published)
            -> "InvalidDateError"
      [] OTHER -> "none"
metadata_ok(item) == metadata_error(item) = "none"
metadata(item) ==
    [id |-> metadata_id(item),
     updated_on |-> metadata_updated_on(item),
     category |-> metadata_category(item),
     data |-> item]

\* Backend._purge_cache_queue, _push_cache_queue, _flush_cache_queue and
\* Cache.retrieve.
purge_cache_queue(queue) == <<>>
push_cache_queue(queue, item) == IF cache THEN Append(queue, item) ELSE queue
flush_cache_queue_storage(store, queue) == IF cache THEN store \o queue ELSE store
flush_cache_queue_queue(queue) == <<>>
retrieve(store) == store

\* ------------------------------------------------------------- initial state
Init ==
    /\ cache \in BOOLEAN
    /\ storage = <<>>
    /\ cache_queue = <<>>
    /\ feed \in Feeds
    /\ call = "none"
    /\ pc = "done"
    /\ status_code = 0
    /\ raw_entries = NoPayload
    /\ entries = <<>>
    /\ nentries = 0
    /\ items = <<>>
    /\ result = "none"
    /\ trace = <<>>
    /\ storage0 = <<>>
    /\ lastFetch = NoFetch

\* ------------------------------------------------------------- environment
\* The site publishes a new entry, newest first.
Publish ==
    /\ pc = "done"
    /\ Len(feed) < MaxLen
    /\ \E e \in Entries : feed' = <<e>> \o feed
    /\ UNCHANGED <<cache, status_code, storage, cache_queue, call, pc, raw_entries, entries,
                   nentries, items, result, trace, storage0, lastFetch>>

\* Has the running call performed this effect
Did(effect) == \E i \in 1..Len(trace) : trace[i] = effect

\* How a call ends: the history of the last fetch() is kept when the
\* caller consumed it to its end (exhaustion or error), not when the caller
\* abandoned it.  No statement that ends a call hands out an item, reads a
\* payload or flushes, so the history is made of the values before it.
Ended(how) ==
    /\ pc' = "done"
    /\ result' = how
    /\ lastFetch' = IF call = "fetch"
                    THEN IF how = "closed" THEN NoFetch
                         ELSE [made |-> TRUE, raw |-> raw_entries, items |-> items,
                               result |-> how, flushed |-> Did("flush"),
                               records0 |-> Len(storage0)]
                    ELSE lastFetch

\* ------------------------------------------------------------- RSS.fetch
\* The caller calls fetch() and starts to iterate.
CallFetch ==
    /\ pc = "done"
    /\ Len(storage) < MaxRecords
    /\ call' = "fetch"
    /\ pc' = "purge"
    /\ status_code' = 0
    /\ raw_entries' = NoPayload
    /\ entries' = <<>>
    /\ nentries' = 0
    /\ items' = <<>>
    /\ result' = "running"
    /\ trace' = <<>>
    /\ storage0' = storage
    /\ UNCHANGED <<cache, storage, cache_queue, feed, lastFetch>>

\* fetch() as it would run with the flush moved before the parse.
NextStmtFlushFirst(stmt) ==
    CASE stmt = "purge" -> "get"
      [] stmt = "get" -> "push"
      [] stmt = "push" -> "flush"
      [] stmt = "flush" -> "parse"
      [] stmt = "parse" -> "loop"

\* fetch() as it would run with the push moved after the parse.
NextStmtPushLate(stmt) ==
    CASE stmt = "purge" -> "get"
      [] stmt = "get" -> "parse"
      [] stmt = "parse" -> "push"
      [] stmt = "push" -> "flush"
      [] stmt = "flush" -> "loop"

\* fetch() as it would run with the flush left out before the loop.
NextStmtNoFlush(stmt) ==
    CASE stmt = "purge" -> "get"
      [] stmt = "get" -> "push"
      [] stmt = "push" -> "parse"
      [] stmt = "parse" -> "loop"
      [] stmt = "flush" -> "loop"

\* The order of the statements of fetch() up to its loop.
NextStmt(stmt) ==
    CASE stmt = "purge" -> "get"
      [] stmt = "get" -> "push"
      [] stmt = "push" -> "parse"
      [] stmt = "parse" -> "flush"
      [] stmt = "flush" -> "loop"

\* self._purge_cache_queue()
FetchPurge ==
    /\ call = "fetch" /\ pc = "purge"
    /\ cache_queue' = purge_cache_queue(cache_queue)
    /\ trace' = Append(trace, "purge")
    /\ pc' = NextStmt("purge")
    /\ UNCHANGED <<cache, status_code, storage, feed, call, raw_entries, entries, nentries,
                   items, result, storage0, lastFetch>>

\* RSSClient.get_entries: requests.get, raise_for_status, req.text
\* requests.get raises when no response arrives (status 0 here).
Responses ==
    {Respond(200, Body(feed)), Respond(200, Malformed), Respond(404, Malformed),
     Respond(0, NoPayload)}

\* get_entries as it would run without the call of raise_for_status.
raise_for_status_never(req) == FALSE

raise_for_status(req) == req.status_code >= 400

\* raw_entries = self.client.get_entries()
FetchGet ==
    /\ call = "fetch" /\ pc = "get"
    /\ trace' = Append(trace, "get")
    /\ \E req \in Responses :
         /\ status_code' = req.status_code
         /\ IF req.status_code = 0
            THEN /\ UNCHANGED raw_entries
                 /\ Ended("ConnectionError")
            ELSE IF raise_for_status(req)
            THEN /\ UNCHANGED raw_entries
                 /\ Ended("HTTPError")
            ELSE /\ raw_entries' = req.text
                 /\ pc' = NextStmt("get")
                 /\ UNCHANGED <<result, lastFetch>>
    /\ UNCHANGED <<cache, storage, cache_queue, feed, call, entries, nentries,
                   items, storage0>>

\* self._push_cache_queue(raw_entries)
FetchPush ==
    /\ call = "fetch" /\ pc = "push"
    /\ cache_queue' = push_cache_queue(cache_queue, raw_entries)
    /\ trace' = Append(trace, "push")
    /\ pc' = NextStmt("push")
    /\ UNCHANGED <<cache, status_code, storage, feed, call, raw_entries, entries, nentries,
                   items, result, storage0, lastFetch>>

\* entries = self.parse_feed(raw_entries)['entries']
FetchParse ==
    /\ call = "fetch" /\ pc = "parse"
    /\ trace' = Append(trace, "parse")
    /\ LET parsed == parse_feed(raw_entries)
       IN  IF parsed.ok
           THEN /\ entries' = parsed.entries
                /\ pc' = NextStmt("parse")
                /\ UNCHANGED <<result, lastFetch>>
           ELSE /\ UNCHANGED entries
                /\ Ended("ParseError")
    /\ UNCHANGED <<cache, status_code, storage, cache_queue, feed, call, raw_entries, nentries,
                   items, storage0>>

\* self._flush_cache_queue()
FetchFlush ==
    /\ call = "fetch" /\ pc = "flush"
    /\ storage' = flush_cache_queue_storage(storage, cache_queue)
    /\ cache_queue' = flush_cache_queue_queue(cache_queue)
    /\ trace' = Append(trace, "flush")
    /\ pc' = NextStmt("flush")
    /\ UNCHANGED <<cache, status_code, feed, call, raw_entries, entries, nentries, items,
                   result, storage0, lastFetch>>

\* yield item: the decorator wraps the entry and hands it to the caller.
Deliver(delivered, item) == Append(delivered, metadata(item))

\* The loop as it would run if it dropped an entry whose link was yielded before.
YieldNextDedup ==
    /\ IF nentries < Len(entries)
       THEN LET item == entries[nentries + 1]
            IN  IF metadata_ok(item)
                THEN /\ items' = IF \E i \in 1..Len(items) : items[i].id = metadata_id(item)
                                 THEN items
                                 ELSE Deliver(items, item)
                     /\ nentries' = nentries + 1
                     /\ trace' = Append(trace, "yield")
                     /\ UNCHANGED <<pc, result, lastFetch>>
                ELSE /\ UNCHANGED <<items, nentries>>
                     /\ trace' = Append(trace, "yield")
                     /\ Ended(metadata_error(item))
       ELSE /\ UNCHANGED <<items, nentries, trace>>
            /\ Ended("exhausted")
    /\ UNCHANGED <<cache, status_code, storage, cache_queue, feed, call, raw_entries,
                   entries, storage0>>

\* The loop as it would run if it skipped an entry without link or published.
YieldNextSkipMalformed ==
    /\ IF nentries < Len(entries)
       THEN LET item == entries[nentries + 1]
            IN  /\ items' = IF metadata_ok(item) THEN Deliver(items, item) ELSE items
                /\ nentries' = nentries + 1
                /\ trace' = Append(trace, "yield")
                /\ UNCHANGED <<pc, result, lastFetch>>
       ELSE /\ UNCHANGED <<items, nentries, trace>>
            /\ Ended("exhausted")
    /\ UNCHANGED <<cache, status_code, storage, cache_queue, feed, call, raw_entries,
                   entries, storage0>>

\* for item in entries: yield item; nentries += 1
\* One turn of the loop, with the decorator's wrapping of the yielded item.
\* When the entries are used up the generator returns.
YieldNext ==
    /\ IF nentries < Len(entries)
       THEN LET item == entries[nentries + 1]
            IN  IF metadata_ok(item)
                THEN /\ items' = Deliver(items, item)
                     /\ nentries' = nentries + 1
                     /\ trace' = Append(trace, "yield")
                     /\ UNCHANGED <<pc, result, lastFetch>>
                ELSE /\ UNCHANGED <<items, nentries>>
                     /\ trace' = Append(trace, "yield")
                     /\ Ended(metadata_error(item))
       ELSE /\ UNCHANGED <<items, nentries, trace>>
            /\ Ended("exhausted")
    /\ UNCHANGED <<cache, status_code, storage, cache_queue, feed, call, raw_entries, entries,
                   storage0>>

FetchLoop ==
    /\ call = "fetch" /\ pc = "loop"
    /\ YieldNext

\* The caller stops iterating while the generator is suspended at its yield.
Close ==
    /\ pc \in {"loop", "cloop"}
    /\ nentries > 0
    /\ Ended("closed")
    /\ UNCHANGED <<cache, status_code, storage, cache_queue, feed, call, raw_entries, entries,
                   nentries, items, trace, storage0>>

\* ------------------------------------------------------------- RSS.fetch_from_cache
CallFetchFromCache ==
    /\ pc = "done"
    /\ call' = "fetch_from_cache"
    /\ pc' = "check"
    /\ status_code' = 0
    /\ raw_entries' = NoPayload
    /\ entries' = <<>>
    /\ nentries' = 0
    /\ items' = <<>>
    /\ result' = "running"
    /\ trace' = <<>>
    /\ storage0' = storage
    /\ UNCHANGED <<cache, storage, cache_queue, feed, lastFetch>>

\* fetch_from_cache as it would run without the test of self.cache.
CacheCheckMissing ==
    /\ call = "fetch_from_cache" /\ pc = "check"
    /\ pc' = "retrieve"
    /\ UNCHANGED <<cache, status_code, storage, cache_queue, feed, call, raw_entries,
                   entries, nentries, items, result, trace, storage0, lastFetch>>

\* if not self.cache: raise CacheError(...)
CacheCheck ==
    /\ call = "fetch_from_cache" /\ pc = "check"
    /\ IF ~cache
       THEN Ended("CacheError")
       ELSE /\ pc' = "retrieve"
            /\ UNCHANGED <<result, lastFetch>>
    /\ UNCHANGED <<cache, status_code, storage, cache_queue, feed, call, raw_entries, entries,
                   nentries, items, trace, storage0>>

\* The record taken if the last one stored were read instead.
last_record(records) == records[Len(records)]

\* next(...): the first record of the retrieval sequence
first_record(records) == Head(records)

\* The retrieval as it would run if it asked the url instead of the cache.
CacheRetrieveLive ==
    /\ call = "fetch_from_cache" /\ pc = "retrieve"
    /\ trace' = Append(trace, "get")
    /\ status_code' = 200
    /\ raw_entries' = Body(feed)
    /\ pc' = "cparse"
    /\ UNCHANGED <<cache, storage, cache_queue, feed, call, entries, nentries,
                   items, result, storage0, lastFetch>>

\* The retrieval as it would run if it looped over the records
\* (for cache_entries in self.cache.retrieve()) and so ended quietly on none.
CacheRetrieveQuiet ==
    /\ call = "fetch_from_cache" /\ pc = "retrieve"
    /\ trace' = Append(trace, "retrieve")
    /\ LET records == retrieve(storage)
       IN  IF records = <<>>
           THEN /\ UNCHANGED raw_entries
                /\ Ended("exhausted")
           ELSE /\ raw_entries' = first_record(records)
                /\ pc' = "cparse"
                /\ UNCHANGED <<result, lastFetch>>
    /\ UNCHANGED <<cache, status_code, storage, cache_queue, feed, call, entries,
                   nentries, items, storage0>>

\* cache_entries = next(self.cache.retrieve())
CacheRetrieve ==
    /\ call = "fetch_from_cache" /\ pc = "retrieve"
    /\ trace' = Append(trace, "retrieve")
    /\ LET records == retrieve(storage)
       IN  IF records = <<>>
           THEN /\ UNCHANGED raw_entries
                /\ Ended("RuntimeError")
           ELSE /\ raw_entries' = first_record(records)
                /\ pc' = "cparse"
                /\ UNCHANGED <<result, lastFetch>>
    /\ UNCHANGED <<cache, status_code, storage, cache_queue, feed, call, entries, nentries,
                   items, storage0>>

\* entries = feedparser.parse(cache_entries)['entries']
CacheParse ==
    /\ call = "fetch_from_cache" /\ pc = "cparse"
    /\ trace' = Append(trace, "parse")
    /\ LET parsed == parse_feed(raw_entries)
       IN  IF parsed.ok
           THEN /\ entries' = parsed.entries
                /\ pc' = "cloop"
                /\ UNCHANGED <<result, lastFetch>>
           ELSE /\ UNCHANGED entries
                /\ Ended("ParseError")
    /\ UNCHANGED <<cache, status_code, storage, cache_queue, feed, call, raw_entries, nentries,
                   items, storage0>>

\* for item in entries: yield item
CacheLoop ==
    /\ call = "fetch_from_cache" /\ pc = "cloop"
    /\ YieldNext

\* ------------------------------------------------------------- specification
Next ==
    \/ Publish
    \/ CallFetch
    \/ FetchPurge
    \/ FetchGet
    \/ FetchPush
    \/ FetchParse
    \/ FetchFlush
    \/ FetchLoop
    \/ Close
    \/ CallFetchFromCache
    \/ CacheCheck
    \/ CacheRetrieve
    \/ CacheParse
    \/ CacheLoop

Spec == Init /\ [][Next]_vars

\* ------------------------------------------------------------- properties
\* The call `c` has ended and the caller consumed it to its end.
Consumed(c) == call = c /\ pc = "done" /\ result # "closed"

\* How often the running call performed this effect
Count(effect) == Cardinality({i \in 1..Len(trace) : trace[i] = effect})

\* The entries a payload parses to
Doc(raw) == parse_feed(raw).entries

\* An entry with a link and a published date
WellFormedEntry(e) ==
    /\ "link" \in DOMAIN e
    /\ "published" \in DOMAIN e
    /\ e.published \in {Date1, Date2}

WellFormed(doc) == \A i \in 1..Len(doc) : WellFormedEntry(doc[i])

\* The position of the first entry that is not well-formed, Len + 1 if none
FirstBad(doc) ==
    IF WellFormed(doc) THEN Len(doc) + 1
    ELSE CHOOSE k \in 1..Len(doc) :
            /\ ~WellFormedEntry(doc[k])
            /\ \A j \in 1..(k - 1) : WellFormedEntry(doc[j])

\* The items are the first entries of the document, one for one, in order.
ItemsArePrefixOf(doc) ==
    /\ Len(items) <= Len(doc)
    /\ \A i \in 1..Len(items) :
          /\ items[i].data = doc[i]
          /\ "link" \in DOMAIN doc[i]
          /\ items[i].id = doc[i].link

\* C1: a fetch() consumed to its end over a feed of N well-formed entries
\* yields exactly N items, in feed order, the i-th with the id of the i-th
\* entry's link; nothing is dropped, re-sorted or de-duplicated.
C1_FetchYieldsEveryEntryInOrder ==
    (/\ Consumed("fetch")
     /\ status_code = 200
     /\ parse_feed(raw_entries).ok
     /\ WellFormed(Doc(raw_entries)))
    => /\ result = "exhausted"
       /\ Len(items) = Len(Doc(raw_entries))
       /\ ItemsArePrefixOf(Doc(raw_entries))

C1_Witness ==
    /\ Consumed("fetch")
    /\ result = "exhausted"
    /\ Len(items) = 3
    /\ items[1].id = "http://x/2"
    /\ items[2].id = "http://x/1"
    /\ items[3].id = "http://x/1"

C3_AllOrNothing ==
    (/\ Consumed("fetch")
     /\ status_code = 200
     /\ parse_feed(raw_entries).ok)
    => /\ (\E i \in 1..Len(Doc(raw_entries)) : ~has_published(Doc(raw_entries)[i]))
              => items = <<>>
       /\ items = <<>> \/ Len(items) = Len(Doc(raw_entries))

\* C3 amended: an entry without `published` makes fetch() fail when the
\* loop reaches it, it is not skipped: the caller has then received exactly
\* the entries before the first entry that is not well-formed (no `link`,
\* no `published`, or one that is no date), in order, and none after it.
C3_FailsAtFirstMalformedEntry ==
    (/\ Consumed("fetch")
     /\ status_code = 200
     /\ parse_feed(raw_entries).ok
     /\ \E i \in 1..Len(Doc(raw_entries)) : ~has_published(Doc(raw_entries)[i]))
    => /\ result \in {"KeyError", "InvalidDateError"}
       /\ Len(items) = FirstBad(Doc(raw_entries)) - 1
       /\ ItemsArePrefixOf(Doc(raw_entries))
       /\ ~has_published(Doc(raw_entries)[FirstBad(Doc(raw_entries))])
             => result = "KeyError"

C3_Witness ==
    /\ Consumed("fetch")
    /\ result = "KeyError"
    /\ Len(entries) = 3
    /\ Len(items) = 1
    /\ has_link(entries[2])
    /\ ~has_published(entries[2])
    /\ WellFormedEntry(entries[3])

\* C4: a response with an error status makes fetch() fail with the HTTP
\* error; no item is yielded, nothing is pushed or flushed (the call's only
\* effects are its purge and its GET) and the committed storage is as it
\* was when the call was made.
C4_HttpErrorLeavesCacheAlone ==
    (call = "fetch" /\ status_code >= 400)
    => /\ pc = "done"
       /\ result = "HTTPError"
       /\ items = <<>>
       /\ trace = <<"purge", "get">>
       /\ cache_queue = <<>>
       /\ storage = storage0

C4_Witness ==
    /\ call = "fetch"
    /\ status_code = 404
    /\ result = "HTTPError"
    /\ cache
    /\ Len(storage) = 1

\* C5: a failed parse ends fetch() without a flush: the payload pushed by
\* the call stays staged and the storage is as it was; every fetch() purges
\* the queue first, before its GET; and no committed record is a payload
\* that fails to parse.
C5_ParseFailureNeverCommitted ==
    /\ (call = "fetch" /\ result = "ParseError")
          => /\ pc = "done"
             /\ ~Did("flush")
             /\ items = <<>>
             /\ storage = storage0
             /\ cache_queue = IF cache THEN <<raw_entries>> ELSE <<>>
    /\ (call = "fetch" /\ trace # <<>>) => trace[1] = "purge"
    /\ (call = "fetch" /\ pc = "get") => cache_queue = <<>>
    /\ \A i \in 1..Len(storage) : parse_feed(storage[i]).ok

C5_Witness ==
    /\ call = "fetch"
    /\ pc = "get"
    /\ cache
    /\ lastFetch.made
    /\ lastFetch.result = "ParseError"
    /\ storage # <<>>

\* C6: without a cache fetch_from_cache() fails with the CacheError, yields
\* nothing, and neither asks the url nor retrieves from a cache.
C6_NoCacheIsCacheError ==
    (call = "fetch_from_cache" /\ ~cache)
    => /\ pc \in {"check", "done"}
       /\ pc = "done" => result = "CacheError"
       /\ items = <<>>
       /\ trace = <<>>
       /\ status_code = 0

C6_Witness ==
    /\ call = "fetch_from_cache"
    /\ ~cache
    /\ pc = "done"
    /\ result = "CacheError"

\* C7: the effects of a fetch() come in the order purge, GET, push, parse,
\* flush, and only then the yields; a call that runs to completion has made
\* each of the five exactly once, and no item exists before the parse.
Protocol == <<"purge", "get", "push", "parse", "flush">>
C7_EffectsInOrder ==
    call = "fetch"
    => /\ \A i \in 1..Len(trace) :
             trace[i] = IF i <= Len(Protocol) THEN Protocol[i] ELSE "yield"
       /\ Len(items) <= Count("yield")
       /\ result = "exhausted"
             => /\ Len(trace) = Len(Protocol) + Len(items)
                /\ \A i \in 1..Len(Protocol) : Count(Protocol[i]) = 1

C7_Witness ==
    /\ call = "fetch"
    /\ result = "exhausted"
    /\ Len(items) = 2
    /\ trace = Protocol \o <<"yield", "yield">>

FlushedBeforeLoop ==
    /\ (call = "fetch" /\ (items # <<>> \/ Did("yield"))) => Did("flush")
    /\ (/\ call = "fetch"
        /\ cache
        /\ status_code = 200
        /\ parse_feed(raw_entries).ok
        /\ pc \in {"loop", "done"})
       => storage = Append(storage0, raw_entries)

C10_EmptyCacheIsError ==
    (call = "fetch_from_cache" /\ cache /\ storage0 = <<>>)
    => /\ pc \in {"check", "retrieve", "done"}
       /\ items = <<>>
       /\ pc = "done" => result = "RuntimeError"

C10_Witness ==
    /\ call = "fetch_from_cache"
    /\ cache
    /\ storage = <<>>
    /\ pc = "done"
    /\ result = "RuntimeError"
    /\ lastFetch.made
    /\ lastFetch.result = "ParseError"

====
